---- MODULE Spec2Model ----
(***************************************************************************)
(* State-machine model of the DS1307 real-time-clock driver                *)
(* (src/ds1307/ds1307.py): the driver object's cached configuration, the   *)
(* chip's eight clock/control registers behind the I2C bus, and one action *)
(* per accessor or method of class DS1307.                                 *)
(***************************************************************************)
EXTENDS Integers, Sequences, FiniteSets

VARIABLES
    addr,           \* self._addr: the configured I2C device address
    weekday_start,  \* self._weekday_start
    halt,           \* self._halt: the cached halt flag
    regs,           \* the chip's registers 0..7 as the bus reads and writes them
    call,           \* the last completed call: [op, arg, ret, raised]
    bus             \* the bus transactions the last call issued, in order

vars == <<addr, weekday_start, halt, regs, call, bus>>

----------------------------------------------------------------------------
(* Python's integer operators, as the driver uses them.                    *)

\* x >> n and x << n on Python ints (>> floors, also for negative x)
RECURSIVE Pow2(_)
Pow2(n) == IF n = 0 THEN 1 ELSE 2 * Pow2(n - 1)
ShiftRight(x, n) == x \div Pow2(n)
ShiftLeft(x, n) == x * Pow2(n)

\* x & y and x | y on Python ints (two's complement of unbounded width)
RECURSIVE BitAnd(_, _)
BitAnd(x, y) ==
    IF x = 0 \/ y = 0 THEN 0
    ELSE IF x = -1 THEN y
    ELSE IF y = -1 THEN x
    ELSE (x % 2) * (y % 2) + 2 * BitAnd(x \div 2, y \div 2)

RECURSIVE BitOr(_, _)
BitOr(x, y) ==
    IF x = 0 THEN y
    ELSE IF y = 0 THEN x
    ELSE IF x = -1 \/ y = -1 THEN -1
    ELSE (IF x % 2 = 1 \/ y % 2 = 1 THEN 1 ELSE 0) + 2 * BitOr(x \div 2, y \div 2)

\* ~x
BitNot(x) == -x - 1

\* bit n of a byte
Bit(b, n) == (b \div Pow2(n)) % 2

----------------------------------------------------------------------------
(* Module constants.                                                       *)

DATETIME_REG == 0
CHIP_HALT == 128
CONTROL_REG == 7

----------------------------------------------------------------------------
(* The pure helpers of class DS1307.                                       *)

\* A decimal-to-BCD conversion that shifts the tens digit by 3 bits, not 4.
dec_to_bcd_shift3(value) == BitOr(ShiftLeft(value \div 10, 3), value % 10)

\* (value // 10) << 4 | (value % 10)
dec_to_bcd(value) == BitOr(ShiftLeft(value \div 10, 4), value % 10)

\* ((value >> 4) * 10) + (value & 0x0F)
bcd_to_dec(value) == (ShiftRight(value, 4) * 10) + BitAnd(value, 15)

\* year % 4 == 0
is_leap_year(year) == year % 4 = 0

month_days == <<31, 28, 31, 30, 31, 30, 31, 31, 30, 31, 30, 31>>

\* for x in range(1, month): days16 += month_days[x - 1]
RECURSIVE SumMonths(_, _)
SumMonths(x, month) ==
    IF x >= month THEN 0 ELSE month_days[x] + SumMonths(x + 1, month)

\* month_days[x - 1] raises IndexError once x reaches 13
day_of_year_raises(month) == month > 13

day_of_year(year, month, day) ==
    LET y == year - 2000
        days16 == day + SumMonths(1, month)
    IN  IF month >= 2 /\ is_leap_year(y) THEN days16 + 1 ELSE days16

----------------------------------------------------------------------------
(* The I2C bus and the chip behind it.                                     *)

\* A call that ran to its end, or the exception that ended it.
NoError == "none"
ValueError == "ValueError"
IndexError == "IndexError"
OSError == "OSError"

\* i2c.readfrom_mem(addr, memaddr, nbytes): the bytes, indexed from 0
ReadMem(memaddr, nbytes) == [i \in 0..(nbytes - 1) |-> regs[memaddr + i]]

\* i2c.writeto_mem(addr, memaddr, buf): the register file afterwards
WriteMem(memaddr, buf) ==
    [r \in DOMAIN regs |->
        IF r - memaddr \in DOMAIN buf THEN buf[r - memaddr] ELSE regs[r]]

\* One transaction as the bus sees it; a failed one raises OSError.
ReadTx(memaddr, nbytes, ok) ==
    [kind |-> "read", dev |-> addr, mem |-> memaddr, n |-> nbytes, ok |-> ok,
     data |-> IF ok THEN ReadMem(memaddr, nbytes) ELSE << >>]
WriteTx(memaddr, buf, ok) ==
    [kind |-> "write", dev |-> addr, mem |-> memaddr, buf |-> buf, ok |-> ok]

Returned(op, arg, ret) == [op |-> op, arg |-> arg, ret |-> ret, raised |-> NoError]
Raised(op, arg, err) == [op |-> op, arg |-> arg, ret |-> <<>>, raised |-> err]

----------------------------------------------------------------------------
(* DS1307.datetime                                                         *)

\* A decoding that does not mask the halt bit off the seconds byte.
DecodeDatetimeNoMask(buf) ==
    LET year == bcd_to_dec(buf[6]) + 2000
        month == bcd_to_dec(buf[5])
        day == bcd_to_dec(buf[4])
        yearday == day_of_year(year, month, day)
    IN  << year,
           month,
           day,
           bcd_to_dec(buf[2]),
           bcd_to_dec(buf[1]),
           bcd_to_dec(buf[0]),
           bcd_to_dec(buf[3] - weekday_start),
           yearday >>

\* The tuple the getter builds from the 7 bytes read at DATETIME_REG.
DecodeDatetime(buf) ==
    LET year == bcd_to_dec(buf[6]) + 2000
        month == bcd_to_dec(buf[5])
        day == bcd_to_dec(buf[4])
        yearday == day_of_year(year, month, day)
    IN  << year,
           month,
           day,
           bcd_to_dec(buf[2]),
           bcd_to_dec(buf[1]),
           bcd_to_dec(BitAnd(buf[0], 127)),
           bcd_to_dec(buf[3] - weekday_start),
           yearday >>

\* An encoding that stores the weekday without adding weekday_start.
EncodeDatetimeNoOffset(datetime) ==
    LET second == BitAnd(dec_to_bcd(datetime[6]), 127)
    IN  [i \in 0..6 |->
            CASE i = 0 -> IF halt THEN BitOr(second, ShiftLeft(1, 7)) ELSE second
              [] i = 1 -> dec_to_bcd(datetime[5])
              [] i = 2 -> dec_to_bcd(datetime[4])
              [] i = 3 -> dec_to_bcd(datetime[7])
              [] i = 4 -> dec_to_bcd(datetime[3])
              [] i = 5 -> dec_to_bcd(datetime[2])
              [] i = 6 -> dec_to_bcd(datetime[1] - 2000)]

\* The 7 bytes the setter builds from a datetime tuple (tuple index k of the
\* source is index k + 1 here).
EncodeDatetime(datetime) ==
    LET second == BitAnd(dec_to_bcd(datetime[6]), 127)
    IN  [i \in 0..6 |->
            CASE i = 0 -> IF halt THEN BitOr(second, ShiftLeft(1, 7)) ELSE second
              [] i = 1 -> dec_to_bcd(datetime[5])
              [] i = 2 -> dec_to_bcd(datetime[4])
              [] i = 3 -> dec_to_bcd(datetime[7] + weekday_start)
              [] i = 4 -> dec_to_bcd(datetime[3])
              [] i = 5 -> dec_to_bcd(datetime[2])
              [] i = 6 -> dec_to_bcd(datetime[1] - 2000)]

\* The outcome of reading self.datetime: what is returned or raised.
ReadDatetime(op, rok) ==
    IF ~rok THEN Raised(op, <<>>, OSError)
    ELSE LET buf == ReadMem(DATETIME_REG, 7)
         IN  IF day_of_year_raises(bcd_to_dec(buf[5]))
             THEN Raised(op, <<>>, IndexError)
             ELSE Returned(op, <<>>, DecodeDatetime(buf))

DatetimeGet(rok) ==
    /\ call' = ReadDatetime("datetime_get", rok)
    /\ bus' = << ReadTx(DATETIME_REG, 7, rok) >>
    /\ UNCHANGED <<addr, weekday_start, halt, regs>>

DatetimeSet(datetime, wok) ==
    LET buf == EncodeDatetime(datetime)
    IN  /\ bus' = << WriteTx(DATETIME_REG, buf, wok) >>
        /\ regs' = IF wok THEN WriteMem(DATETIME_REG, buf) ELSE regs
        /\ call' = IF wok THEN Returned("datetime_set", datetime, <<>>)
                   ELSE Raised("datetime_set", datetime, OSError)
        /\ UNCHANGED <<addr, weekday_start, halt>>

----------------------------------------------------------------------------
(* The single-field accessors: each reads self.datetime and indexes it.    *)

FieldGet(op, index, rok) ==
    LET r == ReadDatetime(op, rok)
    IN  /\ call' = IF r.raised = NoError
                   THEN Returned(op, <<>>, << r.ret[index + 1] >>)
                   ELSE r
        /\ bus' = << ReadTx(DATETIME_REG, 7, rok) >>
        /\ UNCHANGED <<addr, weekday_start, halt, regs>>

Year(rok) == FieldGet("year", 0, rok)
Month(rok) == FieldGet("month", 1, rok)
Day(rok) == FieldGet("day", 2, rok)
Hour(rok) == FieldGet("hour", 3, rok)
Minute(rok) == FieldGet("minute", 4, rok)
Second(rok) == FieldGet("second", 5, rok)
Weekday(rok) == FieldGet("weekday", 5, rok)
Yearday(rok) == FieldGet("yearday", 7, rok)

----------------------------------------------------------------------------
(* DS1307.addr, DS1307.weekday_start                                       *)

AddrGet ==
    /\ call' = Returned("addr", <<>>, << addr >>)
    /\ bus' = << >>
    /\ UNCHANGED <<addr, weekday_start, halt, regs>>

WeekdayStartGet ==
    /\ call' = Returned("weekday_start_get", <<>>, << weekday_start >>)
    /\ bus' = << >>
    /\ UNCHANGED <<addr, weekday_start, halt, regs>>

\* A range check that admits 7.
WeekdayStartValidTo7(value) == 0 <= value /\ value <= 7

WeekdayStartValid(value) == 0 <= value /\ value <= 6

WeekdayStartSet(value) ==
    /\ IF WeekdayStartValid(value)
       THEN /\ weekday_start' = value
            /\ call' = Returned("weekday_start_set", << value >>, <<>>)
       ELSE /\ weekday_start' = weekday_start
            /\ call' = Raised("weekday_start_set", << value >>, ValueError)
    /\ bus' = << >>
    /\ UNCHANGED <<addr, halt, regs>>

----------------------------------------------------------------------------
(* DS1307.halt                                                             *)

HaltGet ==
    /\ call' = Returned("halt_get", <<>>, << halt >>)
    /\ bus' = << >>
    /\ UNCHANGED <<addr, weekday_start, halt, regs>>

\* A halt byte whose clearing branch masks with CHIP_HALT, not ~CHIP_HALT.
HaltByteKeepMask(reg, value) ==
    IF value THEN BitOr(reg, CHIP_HALT) ELSE BitAnd(reg, CHIP_HALT)

\* reg |= CHIP_HALT, or reg &= ~CHIP_HALT
HaltByte(reg, value) ==
    IF value THEN BitOr(reg, CHIP_HALT) ELSE BitAnd(reg, BitNot(CHIP_HALT))

\* A halt setter that caches the value only once the write has succeeded.
HaltSetCacheAfterWrite(value, rok, wok) ==
    IF ~rok
    THEN /\ call' = Raised("halt_set", << value >>, OSError)
         /\ bus' = << ReadTx(DATETIME_REG, 1, FALSE) >>
         /\ UNCHANGED <<addr, weekday_start, halt, regs>>
    ELSE LET reg == HaltByte(ReadMem(DATETIME_REG, 1)[0], value)
             buf == [i \in {0} |-> reg]
         IN  /\ halt' = IF wok THEN value ELSE halt
             /\ bus' = << ReadTx(DATETIME_REG, 1, TRUE),
                          WriteTx(DATETIME_REG, buf, wok) >>
             /\ regs' = IF wok THEN WriteMem(DATETIME_REG, buf) ELSE regs
             /\ call' = IF wok THEN Returned("halt_set", << value >>, <<>>)
                        ELSE Raised("halt_set", << value >>, OSError)
             /\ UNCHANGED <<addr, weekday_start>>

HaltSet(value, rok, wok) ==
    IF ~rok
    THEN /\ call' = Raised("halt_set", << value >>, OSError)
         /\ bus' = << ReadTx(DATETIME_REG, 1, FALSE) >>
         /\ UNCHANGED <<addr, weekday_start, halt, regs>>
    ELSE LET reg == HaltByte(ReadMem(DATETIME_REG, 1)[0], value)
             buf == [i \in {0} |-> reg]
         IN  /\ halt' = value
             /\ bus' = << ReadTx(DATETIME_REG, 1, TRUE),
                          WriteTx(DATETIME_REG, buf, wok) >>
             /\ regs' = IF wok THEN WriteMem(DATETIME_REG, buf) ELSE regs
             /\ call' = IF wok THEN Returned("halt_set", << value >>, <<>>)
                        ELSE Raised("halt_set", << value >>, OSError)
             /\ UNCHANGED <<addr, weekday_start>>

----------------------------------------------------------------------------
(* DS1307.square_wave                                                      *)

\* A legal set that also admits rate 2.
SquareWaveRatesWith2 == {0, 1, 2, 4, 8, 32}

SquareWaveRates == {0, 1, 4, 8, 32}

\* A control byte whose rate-select bit 1 is also set for rate 4.
SquareWaveByteRs1(sqw, out) ==
    LET rs0 == IF sqw = 4 \/ sqw = 32 THEN 1 ELSE 0
        rs1 == IF sqw = 4 \/ sqw = 8 \/ sqw = 32 THEN 1 ELSE 0
        o == IF out > 0 THEN 1 ELSE 0
        s == IF sqw > 0 THEN 1 ELSE 0
    IN  BitOr(BitOr(BitOr(rs0, ShiftLeft(rs1, 1)), ShiftLeft(s, 4)), ShiftLeft(o, 7))

\* A control byte whose output level is high for out >= 0.
SquareWaveByteOutHigh(sqw, out) ==
    LET rs0 == IF sqw = 4 \/ sqw = 32 THEN 1 ELSE 0
        rs1 == IF sqw = 8 \/ sqw = 32 THEN 1 ELSE 0
        o == IF out >= 0 THEN 1 ELSE 0
        s == IF sqw > 0 THEN 1 ELSE 0
    IN  BitOr(BitOr(BitOr(rs0, ShiftLeft(rs1, 1)), ShiftLeft(s, 4)), ShiftLeft(o, 7))

\* rs0 | rs1 << 1 | sqw << 4 | out << 7
SquareWaveByte(sqw, out) ==
    LET rs0 == IF sqw = 4 \/ sqw = 32 THEN 1 ELSE 0
        rs1 == IF sqw = 8 \/ sqw = 32 THEN 1 ELSE 0
        o == IF out > 0 THEN 1 ELSE 0
        s == IF sqw > 0 THEN 1 ELSE 0
    IN  BitOr(BitOr(BitOr(rs0, ShiftLeft(rs1, 1)), ShiftLeft(s, 4)), ShiftLeft(o, 7))

\* A square_wave that writes its byte at DATETIME_REG, not CONTROL_REG.
SquareWaveAtDatetimeReg(sqw, out, wok) ==
    IF sqw \notin SquareWaveRates
    THEN /\ call' = Raised("square_wave", << sqw, out >>, ValueError)
         /\ bus' = << >>
         /\ UNCHANGED <<addr, weekday_start, halt, regs>>
    ELSE LET buf == [i \in {0} |-> SquareWaveByte(sqw, out)]
         IN  /\ bus' = << WriteTx(DATETIME_REG, buf, wok) >>
             /\ regs' = IF wok THEN WriteMem(DATETIME_REG, buf) ELSE regs
             /\ call' = IF wok THEN Returned("square_wave", << sqw, out >>, <<>>)
                        ELSE Raised("square_wave", << sqw, out >>, OSError)
             /\ UNCHANGED <<addr, weekday_start, halt>>

SquareWave(sqw, out, wok) ==
    IF sqw \notin SquareWaveRates
    THEN /\ call' = Raised("square_wave", << sqw, out >>, ValueError)
         /\ bus' = << >>
         /\ UNCHANGED <<addr, weekday_start, halt, regs>>
    ELSE LET buf == [i \in {0} |-> SquareWaveByte(sqw, out)]
         IN  /\ bus' = << WriteTx(CONTROL_REG, buf, wok) >>
             /\ regs' = IF wok THEN WriteMem(CONTROL_REG, buf) ELSE regs
             /\ call' = IF wok THEN Returned("square_wave", << sqw, out >>, <<>>)
                        ELSE Raised("square_wave", << sqw, out >>, OSError)
             /\ UNCHANGED <<addr, weekday_start, halt>>

----------------------------------------------------------------------------
(* The helper methods: no bus traffic, no change of the driver.            *)

Helper(c) ==
    /\ call' = c
    /\ bus' = << >>
    /\ UNCHANGED <<addr, weekday_start, halt, regs>>

IsLeapYear(year) ==
    Helper(Returned("is_leap_year", << year >>, << is_leap_year(year) >>))

DayOfYear(year, month, day) ==
    Helper(IF day_of_year_raises(month)
           THEN Raised("day_of_year", << year, month, day >>, IndexError)
           ELSE Returned("day_of_year", << year, month, day >>,
                         << day_of_year(year, month, day) >>))

DecToBcd(value) == Helper(Returned("_dec_to_bcd", << value >>, << dec_to_bcd(value) >>))

BcdToDec(value) == Helper(Returned("_bcd_to_dec", << value >>, << bcd_to_dec(value) >>))

----------------------------------------------------------------------------
(* The chip's oscillator: by itself the chip changes the seconds count in  *)
(* bits 6..0 of register 0 and keeps bit 7.                                *)

ChipTick(seconds) ==
    /\ regs[DATETIME_REG] # BitOr(BitAnd(regs[DATETIME_REG], CHIP_HALT), seconds)
    /\ regs' = [regs EXCEPT ![DATETIME_REG] = BitOr(BitAnd(@, CHIP_HALT), seconds)]
    /\ call' = Returned("chip_tick", << seconds >>, <<>>)
    /\ bus' = << >>
    /\ UNCHANGED <<addr, weekday_start, halt>>

----------------------------------------------------------------------------
(* Inputs and initial states.                                              *)

\* How many of the sample datetimes are used, and how far the arguments of
\* weekday_start and square_wave reach.
NumSamples == 1
MaxWeekdayStartArg == 7
MaxOutArg == 1
MaxRateArg == 33

Min(a, b) == IF a <= b THEN a ELSE b

\* (year, month, day, hour, minute, second, weekday, yearday)
SampleDateTimes ==
    << <<2023, 5, 29, 20, 45, 59, 3, 149>>,
       <<2000, 1, 1, 0, 0, 0, 0, 1>>,
       <<2099, 12, 31, 23, 59, 59, 6, 365>>,
       <<2024, 2, 29, 12, 30, 15, 4, 60>> >>

DateTimes == {SampleDateTimes[i] : i \in 1..Min(NumSamples, Len(SampleDateTimes))}

\* Register files the chip may hold when the driver is constructed: the clock
\* at 2023-05-29 20:45:59, running with the control register cleared, or
\* halted (bit 7 of register 0) with a 32.768kHz square wave configured.
MkRegs(bytes) == [r \in 0..7 |-> bytes[r + 1]]
ChipStates ==
    { MkRegs(<<89, 69, 32, 3, 41, 5, 35, 0>>),
      MkRegs(<<217, 69, 32, 3, 41, 5, 35, 147>>) }

DefaultAddr == 104
Addrs == {DefaultAddr, 105}
WeekdayStartArgs == (-1)..MaxWeekdayStartArg
RateArgs == {0, 2, 32}
OutArgs == (-1)..MaxOutArg
TickSeconds == {0, 89}

\* __init__
Constructed(a) ==
    /\ addr = a
    /\ weekday_start = 0
    /\ halt = FALSE
    /\ call = Returned("__init__", << a >>, <<>>)
    /\ bus = << >>

Init ==
    /\ Constructed(DefaultAddr)
    /\ regs \in ChipStates

Next ==
    \/ AddrGet
    \/ WeekdayStartGet
    \/ \E value \in WeekdayStartArgs : WeekdayStartSet(value)
    \/ \E rok \in BOOLEAN : DatetimeGet(rok)
    \/ \E datetime \in DateTimes, wok \in BOOLEAN : DatetimeSet(datetime, wok)
    \/ \E rok \in BOOLEAN : Year(rok)
    \/ \E rok \in BOOLEAN : Month(rok)
    \/ \E rok \in BOOLEAN : Day(rok)
    \/ \E rok \in BOOLEAN : Hour(rok)
    \/ \E rok \in BOOLEAN : Minute(rok)
    \/ \E rok \in BOOLEAN : Second(rok)
    \/ \E rok \in BOOLEAN : Weekday(rok)
    \/ \E rok \in BOOLEAN : Yearday(rok)
    \/ \E datetime \in DateTimes : IsLeapYear(datetime[1])
    \/ \E datetime \in DateTimes : DayOfYear(datetime[1], datetime[2], datetime[3])
    \/ \E datetime \in DateTimes : DecToBcd(datetime[6])
    \/ \E r \in ChipStates : BcdToDec(r[0])
    \/ HaltGet
    \/ \E value \in BOOLEAN, rok \in BOOLEAN, wok \in BOOLEAN :
           (rok \/ wok) /\ HaltSet(value, rok, wok)
    \/ \E sqw \in RateArgs, out \in OutArgs, wok \in BOOLEAN : SquareWave(sqw, out, wok)
    \/ \E seconds \in TickSeconds : ChipTick(seconds)

Spec == Init /\ [][Next]_vars

----------------------------------------------------------------------------
(* The helper methods alone, over their whole argument ranges: the two BCD *)
(* conversions, each also applied to the other's result, the leap-year     *)
(* test and the day of the year.                                           *)

Years == 2000..2099
Months == 1..12
Days == 1..31
Bytes == 0..255

NextHelpers ==
    \/ call.op = "__init__" /\ \E value \in 0..99 : DecToBcd(value)
    \/ call.op = "__init__" /\ \E value \in Bytes : BcdToDec(value)
    \/ call.op = "_dec_to_bcd" /\ BcdToDec(call.ret[1])
    \/ call.op = "_bcd_to_dec" /\ DecToBcd(call.ret[1])
    \/ call.op = "__init__" /\ \E year \in Years : IsLeapYear(year)
    \/ call.op = "__init__" /\
           \E year \in Years, month \in Months, day \in Days : DayOfYear(year, month, day)

SpecHelpers == Init /\ [][NextHelpers]_vars

----------------------------------------------------------------------------
(* Setting the clock and reading it back, over the whole range of every    *)
(* field of the datetime: the driver is constructed, weekday_start and     *)
(* halt are set, the datetime is written and then read.                    *)

Hours == 0..23
Minutes == 0..59
Seconds == 0..59
Weekdays == 0..6

FieldRange(k) ==
    CASE k = 1 -> Years [] k = 2 -> Months [] k = 3 -> Days [] k = 4 -> Hours
      [] k = 5 -> Minutes [] k = 6 -> Seconds [] k = 7 -> Weekdays

AllSamples == {SampleDateTimes[i] : i \in DOMAIN SampleDateTimes}

\* Every sample datetime with one of its fields taken through its range.
RangedDateTimes ==
    {[base EXCEPT ![k] = v] : <<base, k, v>> \in
        UNION {{<<b, j, w>> : w \in FieldRange(j)} : <<b, j>> \in AllSamples \X (1..7)}}

InitDatetime ==
    /\ \E a \in Addrs : Constructed(a)
    /\ regs \in ChipStates

NextDatetime ==
    \/ call.op = "__init__" /\ \E value \in Weekdays : WeekdayStartSet(value)
    \/ call.op \in {"__init__", "weekday_start_set"} /\
           \E value \in BOOLEAN : HaltSet(value, TRUE, TRUE)
    \/ call.op \in {"__init__", "weekday_start_set", "halt_set"} /\
           \E datetime \in RangedDateTimes, wok \in BOOLEAN : DatetimeSet(datetime, wok)
    \/ call.op = "datetime_set" /\ \E rok \in BOOLEAN : DatetimeGet(rok)

SpecDatetime == InitDatetime /\ [][NextDatetime]_vars

----------------------------------------------------------------------------
(* The halt flag over every content of the seconds register: halt is set   *)
(* and read over a bus whose reads and writes may fail.                    *)

InitHalt ==
    /\ \E a \in Addrs : Constructed(a)
    /\ regs \in {[r EXCEPT ![DATETIME_REG] = b] : <<r, b>> \in ChipStates \X Bytes}

NextHalt ==
    \/ \E value \in BOOLEAN, rok \in BOOLEAN, wok \in BOOLEAN :
           (rok \/ wok) /\ HaltSet(value, rok, wok)
    \/ HaltGet

SpecHalt == InitHalt /\ [][NextHalt]_vars

----------------------------------------------------------------------------
(* The square-wave control over a wide range of rates and output levels,   *)
(* called once after weekday_start and halt have been set.                 *)

WideRateArgs == (-1)..MaxRateArg

NextSquareWave ==
    \/ call.op = "__init__" /\ \E value \in Weekdays : WeekdayStartSet(value)
    \/ call.op \in {"__init__", "weekday_start_set"} /\
           \E value \in BOOLEAN : HaltSet(value, TRUE, TRUE)
    \/ call.op \in {"__init__", "weekday_start_set", "halt_set"} /\
           \E sqw \in WideRateArgs, out \in OutArgs, wok \in BOOLEAN :
               SquareWave(sqw, out, wok)

SpecSquareWave == InitDatetime /\ [][NextSquareWave]_vars

----------------------------------------------------------------------------
(* The driver over a bus on which no transaction fails, while the chip     *)
(* counts seconds: the calls that touch register 0, and the halt getter.   *)

\* The BCD bytes of the seconds 0..59.
BcdSeconds == {dec_to_bcd(sec) : sec \in Seconds}

NextNoFail ==
    \/ DatetimeGet(TRUE)
    \/ \E datetime \in DateTimes : DatetimeSet(datetime, TRUE)
    \/ \E value \in BOOLEAN : HaltSet(value, TRUE, TRUE)
    \/ HaltGet
    \/ \E seconds \in BcdSeconds : ChipTick(seconds)

SpecNoFail == Init /\ [][NextNoFail]_vars

----------------------------------------------------------------------------
(* Properties.                                                             *)

\* Both nibbles of a byte are decimal digits.
IsBcdByte(b) == b \in Bytes /\ b \div 16 <= 9 /\ b % 16 <= 9

\* C3: the BCD codec is a pair of mutually inverse functions: _bcd_to_dec
\* applied to the result of _dec_to_bcd(v) returns v for every v in 0..99,
\* and _dec_to_bcd applied to the result of _bcd_to_dec(b) returns b for
\* every byte b whose two nibbles are both at most 9.
C3_BcdInverse ==
    [][ /\ ( /\ call.op = "_dec_to_bcd" /\ call.arg[1] \in 0..99
             /\ call'.op = "_bcd_to_dec" /\ call'.arg = call.ret )
           => call'.ret = call.arg
        /\ ( /\ call.op = "_bcd_to_dec" /\ IsBcdByte(call.arg[1])
             /\ call'.op = "_dec_to_bcd" /\ call'.arg = call.ret )
           => call'.ret = call.arg ]_vars

\* C3 witness: 0x99, the encoding of 99, has been decoded back to 99.
C3_Witness ==
    call.op = "_bcd_to_dec" /\ call.arg = << 153 >> /\ call.ret = << 99 >>

\* The Gregorian calendar, for reference.
GregorianLeap(year) == year % 4 = 0 /\ (year % 100 # 0 \/ year % 400 = 0)
DaysInMonth(year, month) ==
    IF month = 2 THEN (IF GregorianLeap(year) THEN 29 ELSE 28)
    ELSE IF month \in {4, 6, 9, 11} THEN 30 ELSE 31
ValidDate(year, month, day) ==
    year \in Years /\ month \in Months /\ day \in 1..DaysInMonth(year, month)

\* 1 January is day 1 and every later day is one more than the day before it.
RECURSIVE Ordinal(_, _, _)
Ordinal(year, month, day) ==
    IF month = 1 /\ day = 1 THEN 1
    ELSE IF day > 1 THEN 1 + Ordinal(year, month, day - 1)
    ELSE 1 + Ordinal(year, month - 1, DaysInMonth(year, month - 1))

\* C10: for every valid calendar date of 2000..2099, day_of_year returns the
\* ordinal of the date within its year: 1 for 1 January, one more for each
\* following day, 365 or 366 for 31 December.
C10_DayOfYearIsOrdinal ==
    (call.op = "day_of_year" /\ ValidDate(call.arg[1], call.arg[2], call.arg[3]))
        => /\ call.raised = NoError
           /\ call.ret = << Ordinal(call.arg[1], call.arg[2], call.arg[3]) >>

\* A datetime tuple whose fields are in the ranges the driver documents.
InRange(datetime) ==
    /\ datetime[1] \in Years /\ datetime[2] \in Months /\ datetime[3] \in Days
    /\ datetime[4] \in Hours /\ datetime[5] \in Minutes /\ datetime[6] \in Seconds
    /\ datetime[7] \in Weekdays

\* The getter returned right after the setter wrote an in-range datetime.
ReadBack ==
    /\ call.op = "datetime_set" /\ call.raised = NoError /\ InRange(call.arg)
    /\ call'.op = "datetime_get" /\ call'.raised = NoError

\* C1: datetime round trip: when the setter has written an in-range datetime
\* and the getter then reads the same 7 registers, the returned year, month,
\* day, hour, minute and second are the written ones, for every weekday_start
\* and both values of the cached halt flag.
C1_DatetimeRoundTrip ==
    [][ReadBack => \A k \in 1..6 : call'.ret[k] = call.arg[k]]_vars

\* C1 witness: with the halt flag cached, 2099-05-29 20:45:59 was written
\* (seconds register 0xD9) and read back.
C1_Witness ==
    /\ call.op = "datetime_get" /\ call.raised = NoError
    /\ halt /\ regs[0] = 217
    /\ call.ret[1] = 2099 /\ call.ret[6] = 59

\* C2: weekday round trip: the weekday the getter returns from the register
\* the setter wrote equals the written weekday, for every weekday 0..6 and
\* every weekday_start 0..6.
C2_WeekdayRoundTrip ==
    [][ReadBack => call'.ret[7] = call.arg[7]]_vars

\* The BCD byte of a two-digit decimal number.
Bcd(v) == 16 * (v \div 10) + (v % 10)

\* C4: every call of the datetime setter with an in-range datetime issues
\* exactly one bus transaction, a write of 7 bytes at register 0 of the
\* configured address, holding the BCD bytes of second, minute, hour,
\* weekday + weekday_start, day, month and year - 2000, with bit 7 of byte 0
\* set if and only if the cached halt flag is set.
C4_DatetimeWrite ==
    (call.op = "datetime_set" /\ InRange(call.arg)) =>
        /\ Len(bus) = 1
        /\ bus[1].kind = "write" /\ bus[1].dev = addr /\ bus[1].mem = 0
        /\ bus[1].buf =
              [i \in 0..6 |->
                 CASE i = 0 -> Bcd(call.arg[6]) + (IF halt THEN 128 ELSE 0)
                   [] i = 1 -> Bcd(call.arg[5])
                   [] i = 2 -> Bcd(call.arg[4])
                   [] i = 3 -> Bcd(call.arg[7] + weekday_start)
                   [] i = 4 -> Bcd(call.arg[3])
                   [] i = 5 -> Bcd(call.arg[2])
                   [] i = 6 -> Bcd(call.arg[1] - 2000)]

\* C4 witness: 2023-05-29 20:45:59, weekday 3, was written with the halt flag
\* cached and weekday_start 6: seconds byte 0xD9, weekday byte 9.
C4_Witness ==
    /\ call.op = "datetime_set" /\ call.arg = <<2023, 5, 29, 20, 45, 59, 3, 149>>
    /\ halt /\ weekday_start = 6
    /\ bus[1].buf[0] = 217 /\ bus[1].buf[3] = 9

\* C5: halt set is a read-modify-write of the seconds register only: for every
\* byte r that the 1-byte read at register 0 returns and every requested h,
\* the setter then issues exactly one write, of 1 byte at register 0, whose
\* bit 7 is h and whose bits 6..0 are those of r, and the halt getter
\* returns h afterwards.
C5_HaltReadModifyWrite ==
    /\ (call.op = "halt_set" /\ bus[1].ok) =>
          /\ Len(bus) = 2
          /\ bus[1].kind = "read" /\ bus[1].dev = addr
          /\ bus[1].mem = 0 /\ bus[1].n = 1
          /\ bus[2].kind = "write" /\ bus[2].dev = addr /\ bus[2].mem = 0
          /\ DOMAIN bus[2].buf = {0}
          /\ Bit(bus[2].buf[0], 7) = (IF call.arg[1] THEN 1 ELSE 0)
          /\ bus[2].buf[0] % 128 = bus[1].data[0] % 128
          /\ bus[2].buf[0] \in Bytes
          /\ halt = call.arg[1]
    /\ call.op = "halt_get" => call.ret = << halt >>

\* C5 witness: halt was set over a seconds register read as 0x59, and 0xD9
\* was written.
C5_Witness ==
    /\ call.op = "halt_set" /\ call.arg = << TRUE >> /\ call.raised = NoError
    /\ bus[1].data[0] = 89 /\ bus[2].buf[0] = 217 /\ regs[0] = 217

\* The control bytes the driver's tests expect for output level 1.
ControlByteOut1(rate) ==
    CASE rate = 0 -> 128 [] rate = 1 -> 144 [] rate = 4 -> 145
      [] rate = 8 -> 146 [] rate = 32 -> 147

\* C6: for every rate in {0, 1, 4, 8, 32} and every output level, square_wave
\* issues exactly one bus transaction, a write of one byte at register 7,
\* whose bit 0 is set iff the rate is 4 or 32, bit 1 iff the rate is 8 or 32,
\* bit 4 iff the rate is not 0, bit 7 iff the output level is > 0, and whose
\* bits 2, 3, 5 and 6 are clear; with output level 1 the bytes are 0x80,
\* 0x90, 0x91, 0x92 and 0x93.
C6_SquareWaveByte ==
    (call.op = "square_wave" /\ call.arg[1] \in {0, 1, 4, 8, 32}) =>
        LET rate == call.arg[1]
            out == call.arg[2]
            b == bus[1].buf[0]
            OneIff(p) == IF p THEN 1 ELSE 0
        IN  /\ Len(bus) = 1
            /\ bus[1].kind = "write" /\ bus[1].dev = addr /\ bus[1].mem = 7
            /\ DOMAIN bus[1].buf = {0}
            /\ b \in Bytes
            /\ Bit(b, 0) = OneIff(rate \in {4, 32})
            /\ Bit(b, 1) = OneIff(rate \in {8, 32})
            /\ Bit(b, 4) = OneIff(rate # 0)
            /\ Bit(b, 7) = OneIff(out > 0)
            /\ \A n \in {2, 3, 5, 6} : Bit(b, n) = 0
            /\ out = 1 => b = ControlByteOut1(rate)

\* C6 witness: square_wave(8, 1) wrote 0x92 to the control register.
C6_Witness ==
    /\ call.op = "square_wave" /\ call.arg = << 8, 1 >> /\ call.raised = NoError
    /\ bus[1].buf[0] = 146 /\ regs[7] = 146

\* C7 as stated: square_wave(0, 0) writes the control byte 0x80 at register 7.
C7_Rate0Out0Writes0x80 ==
    (call.op = "square_wave" /\ call.arg = << 0, 0 >>) =>
        /\ Len(bus) = 1 /\ bus[1].kind = "write" /\ bus[1].mem = 7
        /\ bus[1].buf = [i \in {0} |-> 128]

\* C7 as amended: square_wave(0, 0) writes the control byte 0x00 at register
\* 7 (0x80 is the byte for rate 0 with output level 1).
C7_Rate0Out0Writes0x00 ==
    (call.op = "square_wave" /\ call.arg = << 0, 0 >>) =>
        /\ Len(bus) = 1 /\ bus[1].kind = "write" /\ bus[1].mem = 7
        /\ bus[1].buf = [i \in {0} |-> 0]

\* C7 witness: square_wave(0, 0) completed with the halt flag cached, and the
\* control register holds 0.
C7_Witness ==
    /\ call.op = "square_wave" /\ call.arg = << 0, 0 >> /\ call.raised = NoError
    /\ bus[1].ok /\ regs[7] = 0 /\ halt

\* C8: weekday_start is 0 after construction and in 0..6 ever after; setting
\* it to a value in 0..6 stores the value; setting it to any other value
\* raises ValueError, keeps the previous value and issues no bus transaction.
C8_WeekdayStartRange ==
    /\ weekday_start = 0
    /\ [][ /\ weekday_start' \in 0..6
           /\ call'.op = "weekday_start_set" =>
                IF call'.arg[1] \in 0..6
                THEN call'.raised = NoError /\ weekday_start' = call'.arg[1]
                ELSE /\ call'.raised = ValueError
                     /\ weekday_start' = weekday_start
                     /\ bus' = << >>
                     /\ regs' = regs ]_vars

\* C8 witness: weekday_start = 7 was refused while weekday_start was 6.
C8_Witness ==
    /\ call.op = "weekday_start_set" /\ call.arg = << 7 >>
    /\ call.raised = ValueError /\ weekday_start = 6

\* C9: square_wave with a rate outside {0, 1, 4, 8, 32} raises ValueError,
\* issues no bus transaction (no register changes) and leaves the cached halt
\* flag and weekday_start as they were, whatever the output level.
C9_BadRateRejected ==
    [][ (call'.op = "square_wave" /\ call'.arg[1] \notin {0, 1, 4, 8, 32}) =>
            /\ call'.raised = ValueError
            /\ bus' = << >>
            /\ regs' = regs
            /\ halt' = halt
            /\ weekday_start' = weekday_start ]_vars

\* C9 witness: square_wave(2, 1) was refused with the halt flag cached and
\* weekday_start 3.
C9_Witness ==
    /\ call.op = "square_wave" /\ call.arg = << 2, 1 >> /\ call.raised = ValueError
    /\ halt /\ weekday_start = 3

\* The index, in the tuple the datetime getter returns, of the field each
\* single-field accessor is named after.
FieldIndex(op) ==
    CASE op = "year" -> 0 [] op = "month" -> 1 [] op = "day" -> 2
      [] op = "hour" -> 3 [] op = "minute" -> 4 [] op = "second" -> 5
      [] op = "weekday" -> 6 [] op = "yearday" -> 7

FieldOps == {"year", "month", "day", "hour", "minute", "second", "weekday", "yearday"}

\* C11: each single-field accessor is a projection of the datetime read: year,
\* month, day, hour, minute, second, weekday and yearday return components
\* 0..7 of the tuple the datetime getter builds from the same 7 registers;
\* the weekday accessor returns the weekday component.
C11_AccessorsProject ==
    (call.op \in FieldOps /\ call.raised = NoError) =>
        call.ret = << DecodeDatetime(bus[1].data)[FieldIndex(call.op) + 1] >>

\* C12: with no bus failure, after every completed datetime get, datetime
\* set and halt set the cached halt flag equals bit 7 of the chip's seconds
\* register, from any initial chip state.
C12_HaltMirrorsChip ==
    (call.op \in {"datetime_get", "datetime_set", "halt_set"} /\ call.raised = NoError)
        => (halt <=> Bit(regs[0], 7) = 1)

\* C13: bus failures in halt set, over any sequence of calls on a bus whose
\* reads and writes may fail: a failed transaction is the last one its call
\* issues and the call raises; a halt set whose read fails issues no write
\* and keeps the cached halt flag; a halt set whose read succeeds and whose
\* write fails caches the requested value although the chip's register is
\* unchanged; no other call changes the cached flag, so it is always the
\* value of the latest halt set whose read succeeded, or FALSE.
C13_HaltSetBusFailures ==
    /\ halt = FALSE
    /\ [][ /\ \A i \in 1..Len(bus') :
                 ~bus'[i].ok => (i = Len(bus') /\ call'.raised = OSError)
           /\ IF call'.op = "halt_set"
              THEN IF ~bus'[1].ok
                   THEN /\ Len(bus') = 1
                        /\ halt' = halt
                        /\ regs' = regs
                   ELSE /\ Len(bus') = 2 /\ bus'[2].kind = "write"
                        /\ halt' = call'.arg[1]
                        /\ ~bus'[2].ok => regs' = regs
              ELSE halt' = halt ]_vars

\* C13 witness: a halt set of TRUE whose read succeeded and whose write
\* failed: the flag is cached while bit 7 of the seconds register is clear.
C13_Witness ==
    /\ call.op = "halt_set" /\ call.arg = << TRUE >> /\ call.raised = OSError
    /\ Len(bus) = 2 /\ bus[1].ok /\ ~bus[2].ok
    /\ halt /\ Bit(regs[0], 7) = 0

\* The registers a write transaction covers.
Written(tx) == {tx.mem + i : i \in DOMAIN tx.buf}

\* C14: frame of the square-wave control and of the reads: a successful
\* square_wave changes only register 7, keeps the cached halt flag and
\* weekday_start and reads nothing from the bus; the datetime getter and the
\* single-field accessors issue one 7-byte read at register 0 and change no
\* register and no cached state; datetime set and halt set never write
\* register 7.
C14_Frame ==
    [][ /\ (call'.op = "square_wave" /\ call'.raised = NoError) =>
              /\ \A r \in 0..6 : regs'[r] = regs[r]
              /\ halt' = halt /\ weekday_start' = weekday_start
              /\ \A i \in 1..Len(bus') : bus'[i].kind = "write"
        /\ call'.op \in FieldOps \cup {"datetime_get"} =>
              /\ Len(bus') = 1 /\ bus'[1].kind = "read"
              /\ bus'[1].mem = 0 /\ bus'[1].n = 7
              /\ regs' = regs
              /\ halt' = halt /\ weekday_start' = weekday_start /\ addr' = addr
        /\ call'.op \in {"datetime_set", "halt_set"} =>
              /\ regs'[7] = regs[7]
              /\ \A i \in 1..Len(bus') :
                    bus'[i].kind = "write" => 7 \notin Written(bus'[i]) ]_vars

\* C14 witness: square_wave(0, 1) completed with the halt flag cached and
\* weekday_start 3, and the control register holds 0x80.
C14_Witness ==
    /\ call.op = "square_wave" /\ call.arg = << 0, 1 >> /\ call.raised = NoError
    /\ halt /\ weekday_start = 3 /\ regs[7] = 128

====
